---- MODULE Spec2Model ----
(***************************************************************************)
(* A model of applyEdits (src/src/warning.ts): the acceptance pass that    *)
(* partitions the input Edits with canApply / doRangesOverlap, and the     *)
(* application pass that loads each affected file, sorts its accepted      *)
(* Replacements rightmost-first and splices them into the contents.        *)
(*                                                                         *)
(* Strings are sequences of one-character strings, so that slicing and     *)
(* concatenation are computed.  Lines and columns are 1-based (spec.md,    *)
(* section 3).                                                             *)
(***************************************************************************)
EXTENDS Integers, Sequences, FiniteSets, TLC

\* ------------------------------------------------------------------ bounds
\* Most Edits in one input sequence.
MaxEdits == 3
\* Most Replacements in one Edit.
MaxReplacements == 2
\* Most Replacements in one input sequence, over all its Edits.
MaxTotal == 3

\* The most Replacements in the input of an invocation that runs beside another.
MaxConcurrent == 2

\* ------------------------------------------------- the external documents
Files == {"a.html", "b.html"}

Texts == {<<"X">>}

\* The single line of text of each file the loader serves.
LineOf(file) ==
  IF file = "a.html" THEN <<"a", "b", "c">> ELSE <<"t">>

\* loader(url): the ParsedDocument of a file, as its list of lines.
loader(file) == << LineOf(file) >>

RECURSIVE JoinLines(_)
JoinLines(lines) ==
  IF lines = <<>> THEN <<>>
  ELSE IF Len(lines) = 1 THEN lines[1]
  ELSE lines[1] \o <<"\n">> \o JoinLines(Tail(lines))

\* document.contents
Contents(document) == JoinLines(document)

RECURSIVE LineStart(_, _)
\* Number of characters before the first character of line `line`.
LineStart(document, line) ==
  IF line <= 1 THEN 0
  ELSE LineStart(document, line - 1) + Len(document[line - 1]) + 1

\* document.sourcePositionToOffset
sourcePositionToOffset(document, position) ==
  LineStart(document, position.line) + (position.column - 1)

\* document.sourceRangeToOffsets(range): [startOffset, endOffset)
sourceRangeToOffsets(document, range) ==
  << sourcePositionToOffset(document, range.start),
     sourcePositionToOffset(document, range.end) >>

\* ------------------------------------------------------ position and range
Position(l, c) == [line |-> l, column |-> c]

\* The positions of a file: column Len + 1 is the one after its last character.
Positions(file) == { Position(1, c) : c \in 1..(Len(LineOf(file)) + 1) }

AllPositions == UNION { Positions(f) : f \in Files }

\* p is at or before q in document order.
PosLeq(p, q) == p.line < q.line \/ (p.line = q.line /\ p.column <= q.column)

PosLt(p, q) == PosLeq(p, q) /\ p # q

\* Well-formed ranges: start is not after end.
SourceRanges ==
  { r \in [file : Files, start : AllPositions, end : AllPositions] :
      /\ r.start \in Positions(r.file)
      /\ r.end \in Positions(r.file)
      /\ PosLeq(r.start, r.end) }

Replacements ==
  { [range |-> r, replacementText |-> t] : r \in SourceRanges, t \in Texts }

\* comparePositionAndRange(position, range, includeEdges) of polymer-analyzer:
\* 0 when the position is inside the range, -1 when it comes before it and 1
\* when it comes after it; with includeEdges false a position on an edge of
\* the range is outside it.
comparePositionAndRange(position, range, includeEdges) ==
  IF position.line < range.start.line THEN -1
  ELSE IF position.line > range.end.line THEN 1
  ELSE IF position.line = range.start.line
          /\ (IF includeEdges THEN position.column < range.start.column
                              ELSE position.column <= range.start.column)
    THEN -1
  ELSE IF position.line = range.end.line
          /\ (IF includeEdges THEN position.column > range.end.column
                              ELSE position.column >= range.end.column)
    THEN 1
  ELSE 0

isPositionInsideRange(position, range, includeEdges) ==
  comparePositionAndRange(position, range, includeEdges) = 0

\* areRangesEqual comparing the lines and forgetting the columns.
areRangesEqual_linesOnly(a, b) ==
  /\ a.start.line = b.start.line
  /\ a.end.line = b.end.line

areRangesEqual(a, b) ==
  /\ a.start.line = b.start.line
  /\ a.start.column = b.start.column
  /\ a.end.line = b.end.line
  /\ a.end.column = b.end.column

\* doRangesOverlap with the edges of a range counted as inside it.
doRangesOverlap_includeEdges(a, b) ==
  IF a.file # b.file THEN FALSE
  ELSE \/ areRangesEqual(a, b)
       \/ isPositionInsideRange(a.start, b, TRUE)
       \/ isPositionInsideRange(a.end, b, TRUE)
       \/ isPositionInsideRange(b.start, a, TRUE)
       \/ isPositionInsideRange(b.end, a, TRUE)

\* doRangesOverlap without the areRangesEqual disjunct.
doRangesOverlap_noEqual(a, b) ==
  IF a.file # b.file THEN FALSE
  ELSE \/ isPositionInsideRange(a.start, b, FALSE)
       \/ isPositionInsideRange(a.end, b, FALSE)
       \/ isPositionInsideRange(b.start, a, FALSE)
       \/ isPositionInsideRange(b.end, a, FALSE)

doRangesOverlap(a, b) ==
  IF a.file # b.file THEN FALSE
  ELSE \/ areRangesEqual(a, b)
       \/ isPositionInsideRange(a.start, b, FALSE)
       \/ isPositionInsideRange(a.end, b, FALSE)
       \/ isPositionInsideRange(b.start, a, FALSE)
       \/ isPositionInsideRange(b.end, a, FALSE)

\* ------------------------------------- Map<string, Replacement[]> as a list
\* A Map iterates in insertion order of its keys: a sequence of entries.
MapHas(map, file) == \E k \in 1..Len(map) : map[k].file = file

MapIndex(map, file) == CHOOSE k \in 1..Len(map) : map[k].file = file

\* replacements.get(file) || []
MapGetOrEmpty(map, file) ==
  IF MapHas(map, file) THEN map[MapIndex(map, file)].replacements ELSE <<>>

MapKeys(map) == { map[k].file : k \in 1..Len(map) }

\* Which array object an entry of the Map holds.  `[replacement]` is an array
\* literal, an object made by the invocation; the other arrays in reach are
\* the input Edits, named by their place in the input.
NewArray == [made |-> "canApply"]

InputArray(n) == [made |-> "caller", edit |-> n]

\* The input as its caller sees it once the lists of the Map have been written
\* (push, sort): a list that is the array of an input Edit shows in the input.
inputAfter(es, map) ==
  [n \in 1..Len(es) |->
     IF \E e \in 1..Len(map) : map[e].array = InputArray(n)
       THEN map[CHOOSE e \in 1..Len(map) : map[e].array = InputArray(n)].replacements
       ELSE es[n]]

\* ----------------------------------------------------------------- canApply
\* canApply without the loop over the accepted Replacements.
canApplyCheck_ignoreAccepted(edit, replacements) ==
  \A i \in 1..Len(edit) :
    \A j \in 1..(i - 1) : ~doRangesOverlap(edit[i].range, edit[j].range)

\* canApply without the consistency loop over the edit's own Replacements.
canApplyCheck_ignoreSelf(edit, replacements) ==
  \A i \in 1..Len(edit) :
    LET fileLocalReplacements == MapGetOrEmpty(replacements, edit[i].range.file)
    IN \A k \in 1..Len(fileLocalReplacements) :
         ~doRangesOverlap(edit[i].range, fileLocalReplacements[k].range)

\* canApply comparing with the most recently accepted Replacement only.
canApplyCheck_lastAcceptedOnly(edit, replacements) ==
  \A i \in 1..Len(edit) :
    /\ LET fileLocalReplacements == MapGetOrEmpty(replacements, edit[i].range.file)
       IN \A k \in 1..Len(fileLocalReplacements) :
            k = Len(fileLocalReplacements) =>
              ~doRangesOverlap(edit[i].range, fileLocalReplacements[k].range)
    /\ \A j \in 1..(i - 1) : ~doRangesOverlap(edit[i].range, edit[j].range)

\* canApply refusing an edit without Replacements.
canApplyCheck_rejectsEmpty(edit, replacements) ==
  /\ edit # <<>>
  /\ \A i \in 1..Len(edit) :
       /\ LET fileLocalReplacements == MapGetOrEmpty(replacements, edit[i].range.file)
          IN \A k \in 1..Len(fileLocalReplacements) :
               ~doRangesOverlap(edit[i].range, fileLocalReplacements[k].range)
       /\ \A j \in 1..(i - 1) : ~doRangesOverlap(edit[i].range, edit[j].range)

\* The checking loops of canApply: no Replacement of the edit overlaps an
\* accepted Replacement of its file or an earlier Replacement of the edit.
canApplyCheck(edit, replacements) ==
  \A i \in 1..Len(edit) :
    /\ LET fileLocalReplacements == MapGetOrEmpty(replacements, edit[i].range.file)
       IN \A k \in 1..Len(fileLocalReplacements) :
            ~doRangesOverlap(edit[i].range, fileLocalReplacements[k].range)
    /\ \A j \in 1..(i - 1) : ~doRangesOverlap(edit[i].range, edit[j].range)

\* The adding loop without the has() test: every Replacement opens an entry.
addReplacement_alwaysNew(replacements, replacement) ==
  Append(replacements,
         [file |-> replacement.range.file, replacements |-> <<replacement>>,
          array |-> NewArray])

\* One iteration of the adding loop of canApply.
addReplacement(replacements, replacement) ==
  IF ~MapHas(replacements, replacement.range.file)
    THEN Append(replacements,
                [file |-> replacement.range.file, replacements |-> <<replacement>>,
                 array |-> NewArray])
    ELSE [replacements EXCEPT ![MapIndex(replacements, replacement.range.file)].replacements =
            Append(@, replacement)]

RECURSIVE addReplacements(_, _)
\* The adding loop of canApply, over the Replacements of the edit in order.
addReplacements(replacements, edit) ==
  IF edit = <<>> THEN replacements
  ELSE addReplacements(addReplacement(replacements, Head(edit)), Tail(edit))

\* canApply adding the Replacements whatever the checks found.
canApplyMap_always(edit, replacements) == addReplacements(replacements, edit)

\* canApply adding each Replacement as soon as it has passed its own checks,
\* so that a rejected edit leaves the ones before its first conflict behind.
canApplyMap_partial(edit, replacements) ==
  IF canApplyCheck(edit, replacements)
    THEN addReplacements(replacements, edit)
    ELSE LET bad == { i \in 1..Len(edit) :
                        ~canApplyCheck(SubSeq(edit, 1, i), replacements) }
             firstBad == CHOOSE i \in bad : \A h \in bad : i <= h
         IN addReplacements(replacements, SubSeq(edit, 1, firstBad - 1))

\* The accumulator after canApply(edit, replacements) has returned.
canApplyMap(edit, replacements) ==
  IF canApplyCheck(edit, replacements)
    THEN addReplacements(replacements, edit)
    ELSE replacements

\* ------------------------------------------------------- the application pass
\* The comparator with a and b exchanged: leftmost first.
compareReplacements_ascending(a, b) ==
  LET leftEdgeComp == comparePositionAndRange(a.range.start, b.range, TRUE)
  IN IF leftEdgeComp # 0 THEN leftEdgeComp
     ELSE comparePositionAndRange(a.range.end, b.range, FALSE)

\* The comparator without its tie-break on the range ends.
compareReplacements_startOnly(a, b) ==
  comparePositionAndRange(b.range.start, a.range, TRUE)

\* The comparator handed to replacements.sort.
compareReplacements(a, b) ==
  LET leftEdgeComp == comparePositionAndRange(b.range.start, a.range, TRUE)
  IN IF leftEdgeComp # 0 THEN leftEdgeComp
     ELSE comparePositionAndRange(b.range.end, a.range, FALSE)

RECURSIVE insertSorted(_, _)
\* One pass of the insertion sort Array.prototype.sort uses on short arrays:
\* the element moves left past every element that compares greater than it.
insertSorted(sorted, element) ==
  IF sorted = <<>> THEN <<element>>
  ELSE IF compareReplacements(sorted[Len(sorted)], element) > 0
    THEN Append(insertSorted(SubSeq(sorted, 1, Len(sorted) - 1), element),
                sorted[Len(sorted)])
    ELSE Append(sorted, element)

RECURSIVE sortFrom(_, _)
sortFrom(sorted, rest) ==
  IF rest = <<>> THEN sorted
  ELSE sortFrom(insertSorted(sorted, Head(rest)), Tail(rest))

\* No sort at all: the Replacements stay in accumulation order.
sortReplacements_unsorted(replacements) == replacements

\* replacements.sort((a, b) => ...)
sortReplacements(replacements) == sortFrom(<<>>, replacements)

\* The comparator orders the list: of two elements at different places one
\* compares before the other, the same one whichever is asked first, and
\* the order is transitive.
comparatorOrders(list) ==
  LET before(m, n) == compareReplacements(list[m], list[n]) < 0
  IN /\ \A m, n \in 1..Len(list) :
          m # n => /\ compareReplacements(list[m], list[n]) # 0
                   /\ before(m, n) = ~before(n, m)
     /\ \A l, m, n \in 1..Len(list) :
          (l # m /\ m # n /\ l # n /\ before(l, m) /\ before(m, n)) => before(l, n)

\* The lists replacements.sort may leave behind.  When the comparator orders
\* the list, the sorted list; otherwise the order is implementation-defined
\* (ECMAScript, Array.prototype.sort) and any arrangement may come out.
sortOutcomes(list) ==
  IF comparatorOrders(list) THEN { sortReplacements(list) }
  ELSE { [n \in 1..Len(list) |-> list[p[n]]] :
           p \in { q \in [1..Len(list) -> 1..Len(list)] :
                     \A a, b \in 1..Len(list) : a # b => q[a] # q[b] } }

Min(a, b) == IF a < b THEN a ELSE b

\* String.prototype.slice(from, to) for offsets >= 0: clamped to the length.
slice(contents, from, to) ==
  SubSeq(contents, Min(from, Len(contents)) + 1, Min(to, Len(contents)))

\* The body of the splicing loop: the offsets come from the loaded document.
spliceOne(document, contents, replacement) ==
  LET offsets == sourceRangeToOffsets(document, replacement.range)
  IN slice(contents, 0, offsets[1]) \o replacement.replacementText
       \o slice(contents, offsets[2], Len(contents))

RECURSIVE spliceAll(_, _, _)
\* The splicing loop over the sorted replacements.
spliceAll(document, contents, replacements) ==
  IF replacements = <<>> THEN contents
  ELSE spliceAll(document, spliceOne(document, contents, Head(replacements)),
                 Tail(replacements))

\* ------------------------------------------- applyEdits as a pure function
RECURSIVE acceptancePass(_, _)
\* The acceptance loop from a given result and accumulator.
acceptancePass(edits, st) ==
  IF edits = <<>> THEN st
  ELSE LET edit == Head(edits)
           ok == canApplyCheck(edit, st.replacementsByFile)
       IN acceptancePass(Tail(edits),
            [appliedEdits |-> IF ok THEN Append(st.appliedEdits, edit)
                                    ELSE st.appliedEdits,
             incompatibleEdits |-> IF ok THEN st.incompatibleEdits
                                         ELSE Append(st.incompatibleEdits, edit),
             replacementsByFile |-> canApplyMap(edit, st.replacementsByFile)])

\* The new contents of one entry of replacementsByFile.
editedContents(entry) ==
  LET document == loader(entry.file)
  IN spliceAll(document, Contents(document), sortReplacements(entry.replacements))

\* The EditResult applyEdits(edits, loader) resolves to.
applyEditsResult(edits) ==
  LET st == acceptancePass(edits,
              [appliedEdits |-> <<>>, incompatibleEdits |-> <<>>,
               replacementsByFile |-> <<>>])
      map == st.replacementsByFile
  IN [appliedEdits |-> st.appliedEdits,
      incompatibleEdits |-> st.incompatibleEdits,
      editedFiles |-> [f \in MapKeys(map) |->
                         editedContents(map[MapIndex(map, f)])]]

\* ------------------------------------------------------------- the inputs
RECURSIVE Sum(_)
Sum(lengths) == IF lengths = <<>> THEN 0 ELSE Head(lengths) + Sum(Tail(lengths))

\* The lengths of the Edits of an input: at most MaxEdits Edits, each of 1 to
\* MaxReplacements Replacements, at most MaxTotal Replacements together.
Shapes ==
  { lengths \in UNION { [1..n -> 1..MaxReplacements] : n \in 0..MaxEdits } :
      Sum(lengths) <= MaxTotal }

\* The list of Replacements cut into Edits of the given lengths.
Cut(flat, lengths) ==
  [n \in 1..Len(lengths) |->
     SubSeq(flat, Sum(SubSeq(lengths, 1, n - 1)) + 1, Sum(SubSeq(lengths, 1, n)))]

\* ------------------------------------------------------- the state machine
VARIABLES
  edits,               \* the argument of applyEdits
  pc,                  \* where the invocation is
  next,                \* index of the Edit the acceptance loop examines next
  appliedEdits,        \* result.appliedEdits
  incompatibleEdits,   \* result.incompatibleEdits
  appliedIdx,          \* input indices of the Edits pushed to appliedEdits
  incompatibleIdx,     \* input indices of the Edits pushed to incompatibleEdits
  replacementsByFile,  \* the accumulator of accepted Replacements
  entry,               \* index of the entry the application loop is at
  document,            \* the loaded document of that entry
  contents,            \* the contents being spliced
  k,                   \* index of the Replacement the splicing loop is at
  editedFiles,         \* result.editedFiles
  loaderCalls,         \* the files the loader was called with, in order
  failure,             \* the error the promise of applyEdits was rejected with
  other                \* a second invocation, suspended while this one runs

vars == << edits, pc, next, appliedEdits, incompatibleEdits, appliedIdx,
           incompatibleIdx, replacementsByFile, entry, document, contents,
           k, editedFiles, loaderCalls, failure, other >>

envVars == << failure, other >>

NoDocument == <<>>

\* The promise of applyEdits has not been rejected.
NoError == [kind |-> "none"]

\* The error a failing loader(file) rejects with.
LoadError(file) == [kind |-> "load", file |-> file]

\* There is no second invocation.
NoInvocation == [pc |-> "none"]

\* applyEdits is entered: the result and the accumulator are empty.
Entered ==
  /\ pc = "accept"
  /\ next = 1
  /\ appliedEdits = <<>>
  /\ incompatibleEdits = <<>>
  /\ appliedIdx = <<>>
  /\ incompatibleIdx = <<>>
  /\ replacementsByFile = <<>>
  /\ entry = 1
  /\ document = NoDocument
  /\ contents = <<>>
  /\ k = 1
  /\ editedFiles = << >>
  /\ loaderCalls = <<>>
  /\ failure = NoError

\* One invocation, on well-formed input.
Init ==
  /\ \E lengths \in Shapes :
       \E flat \in [1..Sum(lengths) -> Replacements] : edits = Cut(flat, lengths)
  /\ Entered
  /\ other = NoInvocation

applyVars == << entry, document, contents, k, editedFiles, loaderCalls >>

\* canApply storing a one-Replacement Edit itself as the list of its file
\* (replacements.set(file, edit)) instead of a new array.
AcceptEdit_sharesArray ==
  /\ pc = "accept"
  /\ next <= Len(edits)
  /\ canApplyCheck(edits[next], replacementsByFile)
  /\ replacementsByFile' =
       IF Len(edits[next]) = 1 /\ ~MapHas(replacementsByFile, edits[next][1].range.file)
         THEN Append(replacementsByFile,
                     [file |-> edits[next][1].range.file, replacements |-> edits[next],
                      array |-> InputArray(next)])
         ELSE canApplyMap(edits[next], replacementsByFile)
  /\ edits' = inputAfter(edits, replacementsByFile')
  /\ appliedEdits' = Append(appliedEdits, edits[next])
  /\ appliedIdx' = Append(appliedIdx, next)
  /\ next' = next + 1
  /\ UNCHANGED << pc, incompatibleEdits, incompatibleIdx >>
  /\ UNCHANGED applyVars
  /\ UNCHANGED envVars

\* canApply returned true: the edit is pushed to appliedEdits.
AcceptEdit ==
  /\ pc = "accept"
  /\ next <= Len(edits)
  /\ canApplyCheck(edits[next], replacementsByFile)
  /\ replacementsByFile' = canApplyMap(edits[next], replacementsByFile)
  /\ edits' = inputAfter(edits, replacementsByFile')
  /\ appliedEdits' = Append(appliedEdits, edits[next])
  /\ appliedIdx' = Append(appliedIdx, next)
  /\ next' = next + 1
  /\ UNCHANGED << pc, incompatibleEdits, incompatibleIdx >>
  /\ UNCHANGED applyVars
  /\ UNCHANGED envVars

\* The else branch without its push: the rejected edit is reported nowhere.
RejectEdit_noPush ==
  /\ pc = "accept"
  /\ next <= Len(edits)
  /\ ~canApplyCheck(edits[next], replacementsByFile)
  /\ replacementsByFile' = canApplyMap(edits[next], replacementsByFile)
  /\ next' = next + 1
  /\ UNCHANGED << edits, pc, appliedEdits, appliedIdx, incompatibleEdits,
                  incompatibleIdx >>
  /\ UNCHANGED applyVars
  /\ UNCHANGED envVars

\* canApply returned false: the edit is pushed to incompatibleEdits.
RejectEdit ==
  /\ pc = "accept"
  /\ next <= Len(edits)
  /\ ~canApplyCheck(edits[next], replacementsByFile)
  /\ replacementsByFile' = canApplyMap(edits[next], replacementsByFile)
  /\ incompatibleEdits' = Append(incompatibleEdits, edits[next])
  /\ incompatibleIdx' = Append(incompatibleIdx, next)
  /\ next' = next + 1
  /\ UNCHANGED << edits, pc, appliedEdits, appliedIdx >>
  /\ UNCHANGED applyVars
  /\ UNCHANGED envVars

resultVars == << edits, next, appliedEdits, incompatibleEdits, appliedIdx,
                 incompatibleIdx >>

acceptVars == << resultVars, replacementsByFile >>

\* The application loop entered while input Edits are still unclassified.
StartApplication_early ==
  /\ pc = "accept"
  /\ pc' = "entry"
  /\ UNCHANGED acceptVars
  /\ UNCHANGED applyVars
  /\ UNCHANGED envVars

\* The acceptance loop has ended: the application loop starts.
StartApplication ==
  /\ pc = "accept"
  /\ next > Len(edits)
  /\ pc' = "entry"
  /\ UNCHANGED acceptVars
  /\ UNCHANGED applyVars
  /\ UNCHANGED envVars

\* loader(file) is called for the current entry and the invocation suspends.
CallLoader ==
  /\ pc = "entry"
  /\ entry <= Len(replacementsByFile)
  /\ loaderCalls' = Append(loaderCalls, replacementsByFile[entry].file)
  /\ pc' = "await"
  /\ UNCHANGED acceptVars
  /\ UNCHANGED << entry, document, contents, k, editedFiles >>
  /\ UNCHANGED envVars

\* The loader's promise resolves: contents is read and the entry's list is
\* sorted in place.
LoaderResolves ==
  /\ pc = "await"
  /\ document' = loader(replacementsByFile[entry].file)
  /\ contents' = Contents(document')
  /\ \E sorted \in sortOutcomes(replacementsByFile[entry].replacements) :
       replacementsByFile' =
         [replacementsByFile EXCEPT ![entry].replacements = sorted]
  /\ edits' = inputAfter(edits, replacementsByFile')
  /\ k' = 1
  /\ pc' = "splice"
  /\ UNCHANGED << next, appliedEdits, incompatibleEdits, appliedIdx, incompatibleIdx >>
  /\ UNCHANGED << entry, editedFiles, loaderCalls >>
  /\ UNCHANGED envVars

\* The rejection caught and the file skipped: the loop goes on to the next
\* entry and the error is only remembered.
LoaderRejects_skipFile ==
  /\ pc = "await"
  /\ failure' = LoadError(replacementsByFile[entry].file)
  /\ entry' = entry + 1
  /\ pc' = "entry"
  /\ UNCHANGED acceptVars
  /\ UNCHANGED << document, contents, k, editedFiles, loaderCalls, other >>

\* The loader's promise is rejected: the await throws, nothing catches it,
\* and the promise of applyEdits is rejected with the loader's error.
LoaderRejects ==
  /\ pc = "await"
  /\ failure' = LoadError(replacementsByFile[entry].file)
  /\ pc' = "failed"
  /\ UNCHANGED acceptVars
  /\ UNCHANGED << entry, document, contents, k, editedFiles, loaderCalls, other >>

\* One iteration of the splicing loop.
Splice ==
  /\ pc = "splice"
  /\ k <= Len(replacementsByFile[entry].replacements)
  /\ contents' = spliceOne(document, contents, replacementsByFile[entry].replacements[k])
  /\ k' = k + 1
  /\ UNCHANGED acceptVars
  /\ UNCHANGED << pc, entry, document, editedFiles, loaderCalls >>
  /\ UNCHANGED envVars

\* result.editedFiles.set(file, contents), and on to the next entry.
SetEditedFile ==
  /\ pc = "splice"
  /\ k > Len(replacementsByFile[entry].replacements)
  /\ editedFiles' =
       [f \in DOMAIN editedFiles \cup {replacementsByFile[entry].file} |->
          IF f = replacementsByFile[entry].file THEN contents ELSE editedFiles[f]]
  /\ entry' = entry + 1
  /\ pc' = "entry"
  /\ UNCHANGED acceptVars
  /\ UNCHANGED << document, contents, k, loaderCalls >>
  /\ UNCHANGED envVars

\* return result
Return ==
  /\ pc = "entry"
  /\ entry > Len(replacementsByFile)
  /\ pc' = "done"
  /\ UNCHANGED acceptVars
  /\ UNCHANGED applyVars
  /\ UNCHANGED envVars

Next ==
  \/ AcceptEdit
  \/ RejectEdit
  \/ StartApplication
  \/ CallLoader
  \/ LoaderResolves
  \/ LoaderRejects
  \/ Splice
  \/ SetEditedFile
  \/ Return

Spec == Init /\ [][Next]_vars

\* ------------------------------------------------------- malformed inputs
\* Any range over the positions of a file, start after end included.
AnySourceRanges ==
  { r \in [file : Files, start : AllPositions, end : AllPositions] :
      r.start \in Positions(r.file) /\ r.end \in Positions(r.file) }

AnyReplacements ==
  { [range |-> r, replacementText |-> t] : r \in AnySourceRanges, t \in Texts }

\* The list of Edits with an Edit of zero Replacements put in after the
\* first `at` of them.
WithEmptyEdit(es, at) == SubSeq(es, 1, at) \o << <<>> >> \o SubSeq(es, at + 1, Len(es))

\* An Edit with zero Replacements, or a Replacement whose start is after
\* its end.
MalformedEdit(edit) ==
  \/ edit = <<>>
  \/ \E m \in 1..Len(edit) : ~PosLeq(edit[m].range.start, edit[m].range.end)

Malformed(es) == \E n \in 1..Len(es) : MalformedEdit(es[n])

\* One invocation, on input that holds a malformed Edit: fewer than MaxTotal
\* Replacements over any ranges, and at most one Edit of zero Replacements.
InitMalformed ==
  /\ \E lengths \in { l \in Shapes : Sum(l) < MaxTotal } :
       \E flat \in [1..Sum(lengths) -> AnyReplacements] :
         LET es == Cut(flat, lengths)
         IN \/ edits = es
            \/ \E at \in 0..Len(es) :
                 Len(es) < MaxEdits /\ edits = WithEmptyEdit(es, at)
  /\ Malformed(edits)
  /\ Entered
  /\ other = NoInvocation

SpecMalformed == InitMalformed /\ [][Next]_vars

\* ------------------------------------------------- two invocations at once
\* What an invocation suspended at an await (or not yet run, or settled)
\* keeps: its argument, its locals and its result object.
Suspended ==
  [edits |-> edits, pc |-> pc, next |-> next,
   appliedEdits |-> appliedEdits, incompatibleEdits |-> incompatibleEdits,
   appliedIdx |-> appliedIdx, incompatibleIdx |-> incompatibleIdx,
   replacementsByFile |-> replacementsByFile, entry |-> entry,
   document |-> document, contents |-> contents, k |-> k,
   editedFiles |-> editedFiles, loaderCalls |-> loaderCalls,
   failure |-> failure]

\* An invocation that has been called with the given argument and has not
\* run yet.
Called(es) ==
  [edits |-> es, pc |-> "accept", next |-> 1,
   appliedEdits |-> <<>>, incompatibleEdits |-> <<>>,
   appliedIdx |-> <<>>, incompatibleIdx |-> <<>>,
   replacementsByFile |-> <<>>, entry |-> 1,
   document |-> NoDocument, contents |-> <<>>, k |-> 1,
   editedFiles |-> << >>, loaderCalls |-> <<>>,
   failure |-> NoError]

\* The running invocation is at a point where the event loop can run the
\* other one: it has not begun, it is suspended at `await loader(file)`, or
\* its promise is settled.
AtSuspensionPoint ==
  \/ pc = "accept" /\ next = 1
  \/ pc \in {"await", "done", "failed"}

\* The two invocations change places with every local left where it was but
\* the accumulator, as if replacementsByFile were one Map shared by all
\* invocations.
Switch_sharedAccumulator ==
  /\ AtSuspensionPoint
  /\ other.pc \in {"accept", "await"}
  /\ other' = Suspended
  /\ edits' = other.edits
  /\ pc' = other.pc
  /\ next' = other.next
  /\ appliedEdits' = other.appliedEdits
  /\ incompatibleEdits' = other.incompatibleEdits
  /\ appliedIdx' = other.appliedIdx
  /\ incompatibleIdx' = other.incompatibleIdx
  /\ replacementsByFile' = replacementsByFile
  /\ entry' = other.entry
  /\ document' = other.document
  /\ contents' = other.contents
  /\ k' = other.k
  /\ editedFiles' = other.editedFiles
  /\ loaderCalls' = other.loaderCalls
  /\ failure' = other.failure

\* The running invocation is suspended (or has not begun, or is settled) and
\* the other one, which is not settled, runs: every local of the async
\* function, its accumulator and its result object belong to the invocation.
Switch ==
  /\ AtSuspensionPoint
  /\ other.pc \in {"accept", "await"}
  /\ other' = Suspended
  /\ edits' = other.edits
  /\ pc' = other.pc
  /\ next' = other.next
  /\ appliedEdits' = other.appliedEdits
  /\ incompatibleEdits' = other.incompatibleEdits
  /\ appliedIdx' = other.appliedIdx
  /\ incompatibleIdx' = other.incompatibleIdx
  /\ replacementsByFile' = other.replacementsByFile
  /\ entry' = other.entry
  /\ document' = other.document
  /\ contents' = other.contents
  /\ k' = other.k
  /\ editedFiles' = other.editedFiles
  /\ loaderCalls' = other.loaderCalls
  /\ failure' = other.failure

\* The Replacements that replace the whole text of a file.
WholeFile ==
  { r \in Replacements :
      /\ r.range.start = Position(1, 1)
      /\ r.range.end = Position(1, Len(LineOf(r.range.file)) + 1) }

\* Two invocations on well-formed inputs: one with at most MaxConcurrent
\* Replacements, one with a single Edit that replaces a whole file.
InitConcurrent ==
  /\ \E lengths \in { l \in Shapes : l # <<>> /\ Sum(l) <= MaxConcurrent } :
       \E flat \in [1..Sum(lengths) -> Replacements] : edits = Cut(flat, lengths)
  /\ Entered
  /\ \E replacement \in WholeFile : other = Called(<< << replacement >> >>)

NextConcurrent ==
  \/ Next
  \/ Switch

SpecConcurrent == InitConcurrent /\ [][NextConcurrent]_vars

\* ------------------------------------------------------ notions of the claims
Range(seq) == { seq[n] : n \in 1..Len(seq) }

\* Some Replacement of edit A overlaps some Replacement of edit B.
EditsOverlap(A, B) ==
  \E m \in 1..Len(A), n \in 1..Len(B) : doRangesOverlap(A[m].range, B[n].range)

\* Two Replacements at different places of the edit overlap each other.
SelfOverlapping(A) ==
  \E m, n \in 1..Len(A) : m < n /\ doRangesOverlap(A[m].range, A[n].range)

\* The acceptance loop has classified every input Edit.
AcceptanceDone == next > Len(edits)

\* The acceptance loop is running or has just ended, or applyEdits has
\* returned: the states in which the result lists and the accumulator are
\* looked at (the application loop changes neither).
AtAcceptanceOrReturn == pc \in {"accept", "done"}

\* The input Edits the acceptance loop has pushed to appliedEdits, in input order.
KeptEdits == [n \in 1..Len(appliedIdx) |-> edits[appliedIdx[n]]]

\* The Replacements accumulated for a file, as a set.
Accepted(file) == Range(MapGetOrEmpty(replacementsByFile, file))

\* The files named by the Replacements of a list of Edits.
FilesOfEdits(es) ==
  UNION { { es[n][m].range.file : m \in 1..Len(es[n]) } : n \in 1..Len(es) }

\* ----------------------------------------------------------------------- C1
\* C1 as stated: whenever Edit A comes before Edit B in the input and some
\* Replacement of A overlaps some Replacement of B, A is in appliedEdits and B
\* is in incompatibleEdits.
C1_PriorityAsStated ==
  (AcceptanceDone /\ AtAcceptanceOrReturn) =>
    \A i, j \in 1..Len(edits) :
      (i < j /\ EditsOverlap(edits[i], edits[j])) =>
        (i \in Range(appliedIdx) /\ j \in Range(incompatibleIdx))

\* C1 (amended): whenever Edit A comes before Edit B in the input, some
\* Replacement of A overlaps some Replacement of B and A is in appliedEdits,
\* B is in incompatibleEdits and not in appliedEdits: two overlapping Edits are
\* never both applied, and an applied Edit is never displaced by a later one.
C1_Priority ==
  (AcceptanceDone /\ AtAcceptanceOrReturn) =>
    \A i, j \in 1..Len(edits) :
      (i < j /\ EditsOverlap(edits[i], edits[j]) /\ i \in Range(appliedIdx)) =>
        (j \in Range(incompatibleIdx) /\ j \notin Range(appliedIdx))

C1_Witness ==
  /\ pc = "done"
  /\ \E i, j \in 1..Len(edits) :
       /\ i < j
       /\ EditsOverlap(edits[i], edits[j])
       /\ i \in Range(appliedIdx)
       /\ j \in Range(incompatibleIdx)

\* ----------------------------------------------------------------------- C2
\* C2: a rejected Edit leaves no trace.  After each Edit the accumulator is
\* the one the acceptance pass builds from the applied Edits alone, and on
\* return editedFiles is what applyEdits returns for the input with the
\* rejected Edits removed (which then rejects nothing).
C2_Atomicity ==
  /\ pc = "accept" =>
       replacementsByFile =
         acceptancePass(KeptEdits,
           [appliedEdits |-> <<>>, incompatibleEdits |-> <<>>,
            replacementsByFile |-> <<>>]).replacementsByFile
  /\ pc = "done" =>
       LET alone == applyEditsResult(KeptEdits)
       IN /\ alone.editedFiles = editedFiles
          /\ alone.appliedEdits = appliedEdits
          /\ alone.incompatibleEdits = <<>>

\* A multi-file Edit of which only one file's Replacement conflicts has been
\* rejected, and the invocation has returned.
C2_Witness ==
  /\ pc = "done"
  /\ \E j \in Range(incompatibleIdx) :
       /\ Len(edits[j]) = 2
       /\ edits[j][1].range.file # edits[j][2].range.file
       /\ ~SelfOverlapping(edits[j])
       /\ \E m \in 1..2 :
            \A r \in Accepted(edits[j][m].range.file) :
              ~doRangesOverlap(edits[j][m].range, r.range)

\* ----------------------------------------------------------------------- C3
\* C3: after each Edit of the acceptance pass, when the pass ends and when
\* applyEdits returns, no two Replacements at different places of one entry of
\* replacementsByFile overlap according to doRangesOverlap, and no file has
\* two entries.
C3_NonOverlap ==
  AtAcceptanceOrReturn =>
    /\ \A e \in 1..Len(replacementsByFile) :
         LET rs == replacementsByFile[e].replacements
         IN \A m, n \in 1..Len(rs) :
              m # n => ~doRangesOverlap(rs[m].range, rs[n].range)
    /\ \A e, g \in 1..Len(replacementsByFile) :
         e # g => replacementsByFile[e].file # replacementsByFile[g].file

\* A file has accumulated Replacements of two different Edits.
C3_Witness ==
  /\ AcceptanceDone
  /\ Len(appliedIdx) >= 2
  /\ \E e \in 1..Len(replacementsByFile) :
       Len(replacementsByFile[e].replacements) >= 2

\* ----------------------------------------------------------------------- C4
RECURSIVE Substitute(_, _, _, _)
\* Reference result: the Replacements of the set S substituted all at once
\* into the original contents from offset `from` on; the text outside every
\* [startOffset, endOffset) is kept and each span gives way to its text.
Substitute(doc, original, S, from) ==
  IF S = {} THEN SubSeq(original, from + 1, Len(original))
  ELSE LET first == CHOOSE r \in S : \A q \in S :
                      LET o == sourceRangeToOffsets(doc, r.range)
                          u == sourceRangeToOffsets(doc, q.range)
                      IN o[1] < u[1] \/ (o[1] = u[1] /\ o[2] <= u[2])
           offsets == sourceRangeToOffsets(doc, first.range)
       IN SubSeq(original, from + 1, offsets[1]) \o first.replacementText
            \o Substitute(doc, original, S \ {first}, offsets[2])

\* C4: every entry of editedFiles is the reference result of substituting all
\* the accepted Replacements of its file at once into the original contents.
C4_SpliceResult ==
  \A f \in DOMAIN editedFiles :
    editedFiles[f] = Substitute(loader(f), Contents(loader(f)), Accepted(f), 0)

\* A file was edited by three Replacements, two of which touch at a boundary
\* and one of which is a zero-width insertion.
C4_Witness ==
  /\ pc = "done"
  /\ \E f \in DOMAIN editedFiles :
       /\ Cardinality(Accepted(f)) = 3
       /\ \E r, q \in Accepted(f) :
            r # q /\ r.range.end = q.range.start /\ r.range.start # r.range.end
                  /\ q.range.start # q.range.end
       /\ \E r \in Accepted(f) : r.range.start = r.range.end

\* ----------------------------------------------------------------------- C5
StrictlyIncreasing(seq) ==
  \A m, n \in 1..Len(seq) : m < n => seq[m] < seq[n]

\* C5: every input Edit examined so far was appended to exactly one of
\* appliedEdits and incompatibleEdits, both lists keep the input order, and
\* on return the two lengths add up to the length of the input.
C5_Partition ==
  AtAcceptanceOrReturn =>
  /\ Range(appliedIdx) \cup Range(incompatibleIdx) = 1..(next - 1)
  /\ Range(appliedIdx) \cap Range(incompatibleIdx) = {}
  /\ StrictlyIncreasing(appliedIdx)
  /\ StrictlyIncreasing(incompatibleIdx)
  /\ appliedEdits = [n \in 1..Len(appliedIdx) |-> edits[appliedIdx[n]]]
  /\ incompatibleEdits = [n \in 1..Len(incompatibleIdx) |-> edits[incompatibleIdx[n]]]
  /\ Len(appliedEdits) + Len(incompatibleEdits) = next - 1
  /\ pc = "done" => Len(appliedEdits) + Len(incompatibleEdits) = Len(edits)

\* An invocation returned with Edits in both lists.
C5_Witness ==
  /\ pc = "done"
  /\ Len(edits) = 3
  /\ appliedEdits # <<>>
  /\ incompatibleEdits # <<>>

\* ----------------------------------------------------------------------- C6
\* C6: an examined Edit with two Replacements that overlap each other is in
\* incompatibleEdits and not in appliedEdits; when it is the only Edit of the
\* input nothing at all is accumulated.
C6_SelfOverlap ==
  AtAcceptanceOrReturn =>
  \A i \in 1..(next - 1) :
    SelfOverlapping(edits[i]) =>
      /\ i \in Range(incompatibleIdx)
      /\ i \notin Range(appliedIdx)
      /\ Len(edits) = 1 => (replacementsByFile = <<>> /\ editedFiles = << >>)

\* The only Edit of the input overlaps itself and the invocation has returned.
C6_Witness ==
  /\ pc = "done"
  /\ Len(edits) = 1
  /\ SelfOverlapping(edits[1])

\* ----------------------------------------------------------------------- C7
\* Two different ranges of one file of which one ends where the other starts.
Touching(a, b) ==
  /\ a.file = b.file
  /\ ~areRangesEqual(a, b)
  /\ (a.end = b.start \/ b.end = a.start)

InputOrders(n) ==
  { p \in [1..n -> 1..n] : \A a, b \in 1..n : a # b => p[a] # p[b] }

\* The input Edits are each self-consistent and overlap each other nowhere.
ConflictFree(es) ==
  /\ \A n \in 1..Len(es) : ~SelfOverlapping(es[n])
  /\ \A m, n \in 1..Len(es) : m # n => ~EditsOverlap(es[m], es[n])

\* C8: when the input Edits are self-consistent and pairwise non-overlapping,
\* the invocation applies all of them and rejects none, and applyEdits does
\* the same for every permutation of the input, with the same editedFiles.
C8_OrderIndependence ==
  (pc = "done" /\ ConflictFree(edits)) =>
    /\ appliedEdits = edits
    /\ incompatibleEdits = <<>>
    /\ \A p \in InputOrders(Len(edits)) :
         LET permuted == [n \in 1..Len(edits) |-> edits[p[n]]]
             result == applyEditsResult(permuted)
         IN /\ result.appliedEdits = permuted
            /\ result.incompatibleEdits = <<>>
            /\ result.editedFiles = editedFiles

\* Three conflict-free Edits, given out of document order, in one file.
C8_Witness ==
  /\ pc = "done"
  /\ ConflictFree(edits)
  /\ Len(edits) = 3
  /\ DOMAIN editedFiles = {"a.html"}
  /\ PosLt(edits[1][1].range.start, edits[3][1].range.start)
  /\ PosLt(edits[3][1].range.start, edits[2][1].range.start)

\* ----------------------------------------------------------------------- C9
\* C9: on return the keys of editedFiles are exactly the files named by a
\* Replacement of an Edit in appliedEdits.
C9_EditedFilesKeys ==
  pc = "done" => DOMAIN editedFiles = FilesOfEdits(appliedEdits)

\* A file named only by a rejected Edit has no entry, another file has one.
C9_Witness ==
  /\ pc = "done"
  /\ \E f \in FilesOfEdits(incompatibleEdits) : f \notin DOMAIN editedFiles
  /\ DOMAIN editedFiles # {}

\* ---------------------------------------------------------------------- C10
\* C10: the loader is never called twice for one file and only for files with
\* an accepted Replacement; on return it was called for each of those files.
C10_LoaderCalls ==
  /\ \A m, n \in 1..Len(loaderCalls) : m # n => loaderCalls[m] # loaderCalls[n]
  /\ \A f \in Range(loaderCalls) : Accepted(f) # {}
  /\ pc = "accept" => loaderCalls = <<>>
  /\ pc = "done" =>
       Range(loaderCalls) = { f \in Files : Accepted(f) # {} }

\* Two Edits were applied to one file and one to the other: two loader calls.
C10_Witness ==
  /\ pc = "done"
  /\ Len(loaderCalls) = 2
  /\ Len(appliedIdx) = 3

\* ---------------------------------------------------------------------- C11
\* C11: a step in which the loader fails rejects the promise of applyEdits
\* with the loader's error for the file it was called with last and leaves
\* the invocation failed; a failed invocation takes no further step (no
\* retry, no skip-and-continue, no return of a result), and an invocation
\* that returns a result has met no failure.
C11_LoaderFailure ==
  [][ /\ failure' # failure =>
           /\ pc = "await"
           /\ pc' = "failed"
           /\ failure' = LoadError(loaderCalls[Len(loaderCalls)])
           /\ loaderCalls' = loaderCalls
           /\ editedFiles' = editedFiles
      /\ pc # "failed"
      /\ pc' = "done" => failure' = NoError
    ]_vars

\* The load of the second file failed after the first file had been spliced.
C11_Witness ==
  /\ pc = "failed"
  /\ failure = LoadError("b.html")
  /\ DOMAIN editedFiles = {"a.html"}

\* ---------------------------------------------------------------------- C12
\* C12 as stated: on input that holds an Edit with zero Replacements or a
\* Replacement whose start is after its end, applyEdits fails before the
\* acceptance pass classifies any Edit, and no such Edit is ever in
\* appliedEdits.
C12_FailsFastAsStated ==
  Malformed(edits) =>
    /\ next = 1
    /\ appliedIdx = <<>> /\ incompatibleIdx = <<>>
    /\ \A i \in Range(appliedIdx) : ~MalformedEdit(edits[i])

\* C12 (amended): applyEdits validates nothing.  On malformed input the
\* acceptance pass runs as on any input and never fails: every examined Edit
\* is classified, an Edit with zero Replacements is always in appliedEdits
\* and adds nothing to the accumulator, and an Edit that is the whole input
\* and holds one Replacement whose start is after its end is in appliedEdits.
C12_NoValidation ==
  AtAcceptanceOrReturn =>
    /\ pc = "accept" => failure = NoError
    /\ Range(appliedIdx) \cup Range(incompatibleIdx) = 1..(next - 1)
    /\ \A i \in 1..(next - 1) : edits[i] = <<>> => i \in Range(appliedIdx)
    /\ (\A i \in 1..Len(edits) : edits[i] = <<>>) => replacementsByFile = <<>>
    /\ (next > 1 /\ Len(edits) = 1 /\ Len(edits[1]) = 1) => appliedIdx = <<1>>

\* An Edit of zero Replacements and an Edit with a reversed range are both
\* in appliedEdits when applyEdits returns.
C12_Witness ==
  /\ pc = "done"
  /\ \E i, j \in Range(appliedIdx) :
       /\ edits[i] = <<>>
       /\ edits[j] # <<>>
       /\ \E m \in 1..Len(edits[j]) :
            ~PosLeq(edits[j][m].range.start, edits[j][m].range.end)

\* ---------------------------------------------------------------------- C13
\* A range that is a point: an insertion.
ZeroWidth(range) == range.start = range.end

\* All the Replacements of a list of Edits, as a set.
ReplacementsOf(es) == UNION { Range(es[n]) : n \in 1..Len(es) }

\* Every Replacement of the input is an insertion, and no two of them (in
\* one Edit or in two) are at the same point of the same file.
DistinctInsertions(es) ==
  /\ \A r \in ReplacementsOf(es) : ZeroWidth(r.range)
  /\ \A n \in 1..Len(es) : Cardinality(Range(es[n])) = Len(es[n])
  /\ \A m, n \in 1..Len(es) : m # n => Range(es[m]) \cap Range(es[n]) = {}

\* C13: doRangesOverlap is false of two zero-width ranges of one file at
\* different positions; an input of insertions at pairwise different points
\* has all its Edits applied, every text is inserted at its own position,
\* and "X" inserted alone before column 3 of "abc" gives "abXc".
C13_ZeroWidthInsertions ==
  AtAcceptanceOrReturn =>
    /\ \A r, q \in ReplacementsOf(edits) :
         (/\ ZeroWidth(r.range) /\ ZeroWidth(q.range)
          /\ r.range.file = q.range.file
          /\ r.range.start # q.range.start) => ~doRangesOverlap(r.range, q.range)
    /\ DistinctInsertions(edits) =>
         /\ incompatibleIdx = <<>>
         /\ pc = "done" =>
              /\ DOMAIN editedFiles = FilesOfEdits(edits)
              /\ \A f \in DOMAIN editedFiles :
                   /\ Len(editedFiles[f]) =
                        Len(Contents(loader(f))) + Cardinality(Accepted(f))
                   /\ \A r \in Accepted(f) :
                        LET offset == sourceRangeToOffsets(loader(f), r.range)[1]
                            before == Cardinality({ q \in Accepted(f) :
                                         PosLt(q.range.start, r.range.start) })
                        IN /\ SubSeq(editedFiles[f], offset + before + 1,
                                     offset + before + Len(r.replacementText))
                                = r.replacementText
                           /\ \A c \in 1..Len(Contents(loader(f))) :
                                Contents(loader(f))[c] =
                                  editedFiles[f][c + Cardinality({ q \in Accepted(f) :
                                      sourceRangeToOffsets(loader(f), q.range)[1] < c })]
    /\ (pc = "done" /\ Len(edits) = 1 /\ Len(edits[1]) = 1
        /\ edits[1][1].range = [file |-> "a.html", start |-> Position(1, 3),
                                end |-> Position(1, 3)])
         => editedFiles = [f \in {"a.html"} |-> <<"a", "b">> \o edits[1][1].replacementText \o <<"c">>]

\* Three insertions at three different columns of a.html, given out of
\* document order, were all applied.
C13_Witness ==
  /\ pc = "done"
  /\ DistinctInsertions(edits)
  /\ Len(edits) = 3
  /\ appliedIdx = <<1, 2, 3>>
  /\ DOMAIN editedFiles = {"a.html"}
  /\ PosLt(edits[2][1].range.start, edits[1][1].range.start)

\* ---------------------------------------------------------------------- C14
\* The list runs from the rightmost Replacement to the leftmost: each one
\* ends at or before the start of every one before it in the list.
RightmostFirst(list) ==
  \A m, n \in 1..Len(list) :
    m < n => PosLeq(list[n].range.end, list[m].range.start)

\* C14: for every pair of accepted Replacements of one file the comparator
\* gives a definite and consistent order (never 0, antisymmetric), and the
\* list the splicing loop runs over, and every list it has run over, is in
\* rightmost-first order.
C14_RightmostFirst ==
  /\ AtAcceptanceOrReturn =>
     \A e \in 1..Len(replacementsByFile) :
       LET list == replacementsByFile[e].replacements
       IN /\ comparatorOrders(list)
          /\ \A m, n \in 1..Len(list) :
               m # n =>
                 /\ compareReplacements(list[m], list[n]) \in {-1, 1}
                 /\ compareReplacements(list[m], list[n])
                      = 0 - compareReplacements(list[n], list[m])
  /\ \A e \in 1..Len(replacementsByFile) :
       (e < entry \/ (e = entry /\ pc = "splice")) =>
         RightmostFirst(replacementsByFile[e].replacements)

\* The loop is about to splice the last of three Replacements that were
\* accepted in another order than the one they are spliced in; two of them
\* touch and one is an insertion.
C14_Witness ==
  /\ pc = "splice"
  /\ k = 3
  /\ Len(replacementsByFile[entry].replacements) = 3
  /\ replacementsByFile[entry].replacements
       # MapGetOrEmpty(acceptancePass(edits,
             [appliedEdits |-> <<>>, incompatibleEdits |-> <<>>,
              replacementsByFile |-> <<>>]).replacementsByFile,
           replacementsByFile[entry].file)
  /\ \E r, q \in Accepted(replacementsByFile[entry].file) :
       r.range.end = q.range.start /\ ~ZeroWidth(r.range) /\ ~ZeroWidth(q.range)
  /\ \E r \in Accepted(replacementsByFile[entry].file) : ZeroWidth(r.range)

\* ---------------------------------------------------------------------- C15
\* C15: the document the offsets are taken from is the one the loader gave
\* for the entry's file, and when a Replacement is about to be spliced the
\* current contents and the original contents are the same up to that
\* Replacement's endOffset, so its offsets denote the same text in both.
C15_OffsetValidity ==
  (pc = "splice" /\ k <= Len(replacementsByFile[entry].replacements)) =>
    LET replacement == replacementsByFile[entry].replacements[k]
        offsets == sourceRangeToOffsets(document, replacement.range)
        original == Contents(document)
    IN /\ document = loader(replacementsByFile[entry].file)
       /\ offsets[1] <= offsets[2]
       /\ offsets[2] <= Len(contents)
       /\ SubSeq(contents, 1, offsets[2]) = SubSeq(original, 1, offsets[2])

\* Two Replacements have been spliced and changed the length of the
\* contents, and a third one is about to be spliced.
C15_Witness ==
  /\ pc = "splice"
  /\ k = 3
  /\ Len(replacementsByFile[entry].replacements) = 3
  /\ Len(contents) # Len(Contents(document))

\* ---------------------------------------------------------------------- C16
\* C16: greedy acceptance is exact.  Of the Edits classified so far, an Edit
\* is in appliedEdits if and only if no two of its own Replacements overlap
\* and none of its Replacements overlaps a Replacement of an earlier Edit
\* that is in appliedEdits; earlier rejected Edits play no part.
C16_GreedyExact ==
  AtAcceptanceOrReturn =>
    \A i \in 1..(next - 1) :
      i \in Range(appliedIdx) <=>
        /\ ~SelfOverlapping(edits[i])
        /\ \A h \in Range(appliedIdx) : h < i => ~EditsOverlap(edits[h], edits[i])

\* The third Edit overlaps the second, which was rejected for overlapping
\* the first, and is applied all the same.
C16_Witness ==
  /\ pc = "done"
  /\ Len(edits) = 3
  /\ appliedIdx = << 1, 3 >>
  /\ incompatibleIdx = << 2 >>
  /\ EditsOverlap(edits[2], edits[3])
  /\ EditsOverlap(edits[1], edits[2])

\* ---------------------------------------------------------------------- C17
\* C17: phase ordering.  A loader call is issued only when every input Edit
\* has been classified as applied or incompatible, and once a loader call
\* has been issued no step changes appliedEdits, incompatibleEdits or the
\* set of Replacements accumulated for any file.
C17_PhaseOrdering ==
  [][ /\ loaderCalls' # loaderCalls =>
           /\ AcceptanceDone
           /\ Len(appliedEdits) + Len(incompatibleEdits) = Len(edits)
      /\ loaderCalls # <<>> =>
           /\ appliedEdits' = appliedEdits
           /\ incompatibleEdits' = incompatibleEdits
           /\ \A file \in Files : Accepted(file)' = Accepted(file)
           /\ MapKeys(replacementsByFile)' = MapKeys(replacementsByFile)
    ]_vars

\* Three Edits were classified, one of them rejected, the file was then
\* loaded, its list was reordered by the sort, and applyEdits returned.
C17_Witness ==
  /\ pc = "done"
  /\ Len(edits) = 3
  /\ Len(incompatibleEdits) = 1
  /\ Len(loaderCalls) = 1
  /\ replacementsByFile[1].replacements = << appliedEdits[2][1], appliedEdits[1][1] >>

\* ---------------------------------------------------------------------- C18
\* C18: inputs are not mutated.  No step of applyEdits changes the input
\* sequence, the length or order of any input Edit, or any Replacement; every
\* list of the Map, the ones pushed to and sorted in place, is an array made
\* inside the invocation.
C18_InputsNotMutated ==
  [][ /\ edits' = edits
      /\ \A n \in 1..Len(replacementsByFile') :
           replacementsByFile'[n].array = NewArray
    ]_vars

\* A list that holds the Replacements of two input Edits has been reordered
\* by the in-place sort, and the input Edits are in appliedEdits as they were
\* given.
C18_Witness ==
  /\ pc = "done"
  /\ Len(appliedEdits) = 2
  /\ appliedEdits = << edits[1], edits[2] >>
  /\ Len(edits[2]) = 2
  /\ Len(replacementsByFile) = 1
  /\ replacementsByFile[1].replacements
       = << edits[2][2], edits[2][1], edits[1][1] >>

\* ---------------------------------------------------------------------- C19
\* The EditResult of the running invocation, and of a suspended one.
Result ==
  [appliedEdits |-> appliedEdits, incompatibleEdits |-> incompatibleEdits,
   editedFiles |-> editedFiles]

ResultOf(invocation) ==
  [appliedEdits |-> invocation.appliedEdits,
   incompatibleEdits |-> invocation.incompatibleEdits,
   editedFiles |-> invocation.editedFiles]

\* C19: two invocations interleaved at their loader suspension points do not
\* interfere: each one that returns, returns the EditResult that applyEdits
\* gives for its own input alone, and its input is as it was given.
C19_NoInterference ==
  /\ pc = "done" => Result = applyEditsResult(edits)
  /\ other.pc = "done" => ResultOf(other) = applyEditsResult(other.edits)

\* One invocation has returned while the other is suspended at its await,
\* and the two inputs have Replacements that overlap each other.
C19_Witness ==
  /\ pc = "done"
  /\ Len(loaderCalls) = 2
  /\ other.pc = "await"
  /\ \E n \in 1..Len(edits) : EditsOverlap(edits[n], other.edits[1])

\* ---------------------------------------------------------------------- C20
\* The character offsets a range covers in the contents of its file.
Covered(range) ==
  LET offsets == sourceRangeToOffsets(loader(range.file), range)
  IN offsets[1]..(offsets[2] - 1)

\* The two ranges share at least one character.
ShareCharacter(a, b) == a.file = b.file /\ Covered(a) \cap Covered(b) # {}

\* A zero-width range that lies strictly inside the other range.
StrictlyInside(z, r) ==
  /\ z.file = r.file
  /\ z.start = z.end
  /\ PosLt(r.start, z.start)
  /\ PosLt(z.end, r.end)

\* The ranges of the Replacements of the input.
InputRanges == { r.range : r \in ReplacementsOf(edits) }

\* C20: no missed overlap.  Of any two ranges of the input that share a
\* character, or of which one is zero-width and strictly inside the other,
\* or that are equal (two insertions at one point included), doRangesOverlap
\* is true; it gives the same value with its arguments swapped; and no two
\* accepted Replacements of a file cover a common character.
C20_NoMissedOverlap ==
  /\ pc = "done" =>
       \A a, b \in InputRanges :
         /\ doRangesOverlap(a, b) = doRangesOverlap(b, a)
         /\ ( \/ ShareCharacter(a, b)
              \/ StrictlyInside(a, b)
              \/ StrictlyInside(b, a)
              \/ a = b ) => doRangesOverlap(a, b)
  /\ AtAcceptanceOrReturn =>
       \A n \in 1..Len(replacementsByFile) :
         LET list == replacementsByFile[n].replacements
         IN \A i, j \in 1..Len(list) :
              i # j => Covered(list[i].range) \cap Covered(list[j].range) = {}

\* The input has an insertion strictly inside a wider range, the same
\* insertion twice, and of the three Edits only the first was applied.
C20_Witness ==
  /\ pc = "done"
  /\ Len(edits) = 3
  /\ ZeroWidth(edits[2][1].range)
  /\ StrictlyInside(edits[2][1].range, edits[1][1].range)
  /\ edits[3] = edits[2]
  /\ appliedIdx = << 1 >>
  /\ incompatibleIdx = << 2, 3 >>

====
